---- MODULE Spec2Model ----
(***************************************************************************)
(* Critic-creator workflow of src/main.py: the creator node, the editor    *)
(* (critic) node with its response parser, the should_continue router and  *)
(* the graph edges that connect them.                                      *)
(*                                                                         *)
(* Text is modelled as a sequence of tokens.  A token is an atomic chunk   *)
(* of characters; " " and "\n" are the whitespace tokens, "DECISION:" and  *)
(* "FEEDBACK:" are the two prefixes the parser looks for.                  *)
(***************************************************************************)
EXTENDS Integers, Sequences, FiniteSets, TLC

\* ---------------------------------------------------------------- bounds
\* largest --max-retries value explored (the CLI accepts any int)
MaxRetries == 2
\* largest number of lines in a critic response
MaxLines == 2

\* ---------------------------------------------------------------- text
EmptyStr == << >>
APPROVED == <<"APPROVED">>
REJECTED == <<"REJECTED">>
Good == <<"Good">>
ParseErrorFeedback == <<"Error parsing feedback">>

Whitespace == {" ", "\n"}

RECURSIVE LStrip(_)
LStrip(s) ==
    IF s # << >> /\ Head(s) \in Whitespace THEN LStrip(Tail(s)) ELSE s

RECURSIVE RStrip(_)
RStrip(s) ==
    IF s # << >> /\ s[Len(s)] \in Whitespace
    THEN RStrip(SubSeq(s, 1, Len(s) - 1))
    ELSE s

\* str.strip()
Strip(s) == RStrip(LStrip(s))

\* str.upper(), token by token
UpperTok(t) ==
    CASE t = "approved" -> "APPROVED"
      [] t = "rejected" -> "REJECTED"
      [] t = "Good"     -> "GOOD"
      [] OTHER          -> t

Upper(s) == [i \in 1..Len(s) |-> UpperTok(s[i])]

\* str.split('\n'): always at least one (possibly empty) line
RECURSIVE Split(_)
Split(s) ==
    IF \A i \in 1..Len(s) : s[i] # "\n"
    THEN << s >>
    ELSE LET i == CHOOSE k \in 1..Len(s) :
                      s[k] = "\n" /\ \A j \in 1..(k - 1) : s[j] # "\n"
         IN  << SubSeq(s, 1, i - 1) >> \o Split(SubSeq(s, i + 1, Len(s)))

\* line.startswith(prefix)
StartsWith(line, prefix) == Len(line) >= 1 /\ line[1] = prefix

\* line.replace(prefix, ""): removes every occurrence
Replace(line, prefix) == SelectSeq(line, LAMBDA t : t # prefix)

\* "\n".join(list)
RECURSIVE Join(_)
Join(ls) ==
    IF ls = << >> THEN << >>
    ELSE IF Len(ls) = 1 THEN ls[1]
    ELSE ls[1] \o <<"\n">> \o Join(Tail(ls))

\* ---------------------------------------------------------------- parser
\* one iteration of the loop over the lines, for the decision
DecisionOfLine(line, decision) ==
    IF StartsWith(line, "DECISION:")
    THEN Upper(Strip(Replace(line, "DECISION:")))
    ELSE decision

\* one iteration of the loop over the lines, for the feedback
FeedbackOfLine(line, feedback) ==
    IF StartsWith(line, "FEEDBACK:")
    THEN Strip(Replace(line, "FEEDBACK:"))
    ELSE feedback

\* variant: the first line with a prefix wins
RECURSIVE ParseLoop_first_wins(_, _, _)
ParseLoop_first_wins(lines, decision, feedback) ==
    IF lines = << >>
    THEN [decision |-> decision, feedback |-> feedback]
    ELSE ParseLoop_first_wins(SubSeq(lines, 1, Len(lines) - 1),
                              DecisionOfLine(lines[Len(lines)], decision),
                              FeedbackOfLine(lines[Len(lines)], feedback))

RECURSIVE ParseLoop(_, _, _)
ParseLoop(lines, decision, feedback) ==
    IF lines = << >>
    THEN [decision |-> decision, feedback |-> feedback]
    ELSE ParseLoop(Tail(lines),
                   DecisionOfLine(Head(lines), decision),
                   FeedbackOfLine(Head(lines), feedback))

DefaultDecision == REJECTED

\* variant: the feedback default is the empty string of the initial state
ParseResponse_default_empty(raw) ==
    ParseLoop(Split(Strip(raw)), DefaultDecision, EmptyStr)

\* the parse of a critic response: strip, split, scan every line
ParseResponse(raw) ==
    ParseLoop(Split(Strip(raw)), DefaultDecision, ParseErrorFeedback)

\* variant: the feedback is appended in place and once more on the merge
AppendFeedback_twice(history, feedback) ==
    IF feedback # EmptyStr /\ feedback # Good
    THEN Append(Append(history, feedback), feedback)
    ELSE history

\* variant: a feedback already in the history is not appended again
AppendFeedback_dedup(history, feedback) ==
    IF feedback # EmptyStr /\ feedback # Good
       /\ \A i \in 1..Len(history) : history[i] # feedback
    THEN Append(history, feedback)
    ELSE history

\* variant: the newest feedback is put in front
AppendFeedback_prepend(history, feedback) ==
    IF feedback # EmptyStr /\ feedback # Good
    THEN <<feedback>> \o history
    ELSE history

\* variant: the history update without the test for "Good"
AppendFeedback_keep_good(history, feedback) ==
    IF feedback # EmptyStr
    THEN Append(history, feedback)
    ELSE history

\* the history update of the editor
AppendFeedback(history, feedback) ==
    IF feedback # EmptyStr /\ feedback # Good
    THEN Append(history, feedback)
    ELSE history

\* ---------------------------------------------------------------- router
\* variant: the guardrail compares with > instead of >=
should_continue_late(d, retries, maxr) ==
    IF d = APPROVED THEN "approved"
    ELSE IF retries > maxr THEN "max_retries"
    ELSE "rejected"

\* variant: the guardrail is tested before the approval
should_continue_guard_first(d, retries, maxr) ==
    IF retries >= maxr THEN "max_retries"
    ELSE IF d = APPROVED THEN "approved"
    ELSE "rejected"

\* variant: the guardrail fires one round early
should_continue_early(d, retries, maxr) ==
    IF d = APPROVED THEN "approved"
    ELSE IF retries + 1 >= maxr THEN "max_retries"
    ELSE "rejected"

should_continue(d, retries, maxr) ==
    IF d = APPROVED THEN "approved"
    ELSE IF retries >= maxr THEN "max_retries"
    ELSE "rejected"

\* variant: the max_retries edge leads back to the creator
EdgeTarget_loop(o) ==
    CASE o = "approved"    -> "done"
      [] o = "rejected"    -> "creator"
      [] o = "max_retries" -> "creator"

\* the conditional edges out of the editor node
EdgeTarget(o) ==
    CASE o = "approved"    -> "done"
      [] o = "rejected"    -> "creator"
      [] o = "max_retries" -> "done"

\* ---------------------------------------------------------------- inputs
Products == {<<"Widget">>}
Audiences == {<<"Teens">>}

\* what the generation backend may return to the creator
CopyResponses == { << >>, <<"Copy1">>, <<" ", "Copy2", "\n">> }

\* lines the generation backend may put in a critic response
Lines ==
    { <<"DECISION:", " ", "APPROVED">>,
      <<"DECISION:", " ", "approved", " ">>,
      <<"DECISION:", " ", "REJECTED">>,
      <<"DECISION:", " ", "MAYBE">>,
      <<" ", "DECISION:", " ", "APPROVED">>,
      <<"FEEDBACK:", " ", "Good">>,
      <<"FEEDBACK:", " ", "F1">>,
      <<"FEEDBACK:", " ", "F2", " ">>,
      <<"FEEDBACK:">>,
      <<"F1">>,
      << >> }

\* what the generation backend may return to the critic
CriticResponses ==
    UNION { { Join(ls) : ls \in [1..n -> Lines] } : n \in 0..MaxLines }

\* ---------------------------------------------------------------- prompts
\* the prompt of the first attempt
FreshPrompt(product, audience) ==
    <<"Write a short, punchy social media ad caption for '">> \o product
    \o <<"'. ", "Target audience: ">> \o audience
    \o <<". ", "Output ONLY the caption text.">>

\* the prompt of a later attempt
RefinementPrompt(product, history, feedback) ==
    <<"Your previous draft for '">> \o product \o <<"' was rejected.", "\n">>
    \o <<"Past Feedback History:", "\n">> \o Join(history) \o <<"\n", "\n">>
    \o <<"Most Recent Feedback: ">> \o feedback \o <<"\n", "\n">>
    \o <<"Please write a NEW caption that fixes these issues and respects ",
         "ALL past feedback. Output ONLY the caption text.">>

\* variant: the refinement prompt carries the latest feedback only
CreatorPrompt_latest_only(product, audience, feedback, retries, history) ==
    IF retries = 0
    THEN FreshPrompt(product, audience)
    ELSE RefinementPrompt(product, <<feedback>>, feedback)

\* creator_agent: contextual prompting
CreatorPrompt(product, audience, feedback, retries, history) ==
    IF retries = 0
    THEN FreshPrompt(product, audience)
    ELSE RefinementPrompt(product, history, feedback)

\* editor_agent: the review prompt (the fixed rules are one token)
EditorPrompt(copy) ==
    <<"Review this ad copy: \"">> \o copy
    \o <<"\"", "\n", "Check against these rules:", "RULES",
         "Respond in EXACTLY this format:", "\n",
         "DECISION: [APPROVED or REJECTED]", "\n",
         "FEEDBACK: [One sentence explaining the reason if rejected, or \"Good\" if approved]">>

\* ---------------------------------------------------------------- output
NoPayload == [brand_safety_check |-> "none"]

\* dict.get(key) on the delta a node returned; None is the empty string here
DeltaGet(delta, key) == IF key \in DOMAIN delta THEN delta[key] ELSE EmptyStr

\* variant: success is reported unless the decision is REJECTED
FinalPayload_unless_rejected(final, product, audience) ==
    IF DOMAIN final # {} /\ DeltaGet(final, "decision") # REJECTED
    THEN [adcp_version |-> "1.0", task |-> "creative_generation",
          product_name |-> product, target_audience |-> audience,
          type |-> "text_ad", content |-> final["current_copy"],
          length |-> Len(final["current_copy"]),
          brand_safety_check |-> "passed"]
    ELSE [adcp_version |-> "1.0", task |-> "creative_generation",
          error |-> "Max retries reached or workflow failed",
          brand_safety_check |-> "failed"]

\* run_workflow: what is printed once the stream is exhausted
FinalPayload(final, product, audience) ==
    IF DOMAIN final # {} /\ DeltaGet(final, "decision") = APPROVED
    THEN [adcp_version |-> "1.0", task |-> "creative_generation",
          product_name |-> product, target_audience |-> audience,
          type |-> "text_ad", content |-> final["current_copy"],
          length |-> Len(final["current_copy"]),
          brand_safety_check |-> "passed"]
    ELSE [adcp_version |-> "1.0", task |-> "creative_generation",
          error |-> "Max retries reached or workflow failed",
          brand_safety_check |-> "failed"]

\* ---------------------------------------------------------------- state
VARIABLES
    pc,               \* position: creator, editor, router, done, reported, aborted
    product_name, target_audience, current_copy, editor_feedback,
    feedback_history, decision, retry_count, max_retries,
    outcome,          \* last value returned by should_continue
    response,         \* content last returned by the generation backend
    port,             \* how the last backend call ended: idle, returned, raised
    creator_calls,    \* number of times the creator node was entered
    editor_calls,     \* number of times the editor node was entered
    prompt,           \* prompt of the last call of the generation backend
    port_calls,       \* number of calls of the generation backend
    final_state,      \* run_workflow: the delta of the last node streamed
    payload,          \* run_workflow: what has been printed
    only_rejections,  \* every critic round so far rejected with a real feedback
    runs,             \* parallel invocations: the run state of each, lists by reference
    heap,             \* parallel invocations: the contents of the list objects
    alone             \* parallel invocations: each run as it goes when run alone

state == << product_name, target_audience, current_copy, editor_feedback,
            feedback_history, decision, retry_count, max_retries >>

vars == << pc, product_name, target_audience, current_copy, editor_feedback,
           feedback_history, decision, retry_count, max_retries,
           outcome, response, port, creator_calls, editor_calls,
           prompt, port_calls, final_state, payload, only_rejections,
           runs, heap, alone >>

\* the state of the parallel invocations
parvars == << runs, heap, alone >>

\* run_workflow: the inputs handed to the graph, entry point creator
Init ==
    /\ pc = "creator"
    /\ product_name \in Products
    /\ target_audience \in Audiences
    /\ retry_count = 0
    /\ current_copy = EmptyStr
    /\ editor_feedback = EmptyStr
    /\ feedback_history = << >>
    /\ decision = EmptyStr
    /\ max_retries \in 0..MaxRetries
    /\ outcome = "none"
    /\ response = EmptyStr
    /\ port = "idle"
    /\ creator_calls = 0
    /\ editor_calls = 0
    /\ prompt = EmptyStr
    /\ port_calls = 0
    /\ final_state = << >>
    /\ payload = NoPayload
    /\ only_rejections = TRUE
    /\ runs = << >>
    /\ heap = << >>
    /\ alone = << >>

\* variant: the creator refuses empty content and leaves the graph
CreatorReturns_reject_empty(r) ==
    /\ response' = r
    /\ port' = "returned"
    /\ current_copy' = IF r = EmptyStr THEN current_copy ELSE Strip(r)
    /\ retry_count' = IF r = EmptyStr THEN retry_count ELSE retry_count + 1
    /\ pc' = IF r = EmptyStr THEN "aborted" ELSE "editor"
    /\ UNCHANGED << product_name, target_audience, editor_feedback,
                    feedback_history, decision, max_retries >>

\* variant: the creator sets retry_count from the number of rejections
CreatorReturns_count_history(r) ==
    /\ response' = r
    /\ port' = "returned"
    /\ current_copy' = Strip(r)
    /\ retry_count' = Len(feedback_history) + 1
    /\ pc' = "editor"
    /\ UNCHANGED << product_name, target_audience, editor_feedback,
                    feedback_history, decision, max_retries >>

\* creator_agent, the backend returns content r
CreatorReturns(r) ==
    /\ response' = r
    /\ port' = "returned"
    /\ current_copy' = Strip(r)
    /\ retry_count' = retry_count + 1
    /\ pc' = "editor"
    /\ UNCHANGED << product_name, target_audience, editor_feedback,
                    feedback_history, decision, max_retries >>

\* the prompt the creator sends, one backend call per invocation
CreatorCall ==
    /\ prompt' = CreatorPrompt(product_name, target_audience, editor_feedback,
                               retry_count, feedback_history)
    /\ port_calls' = port_calls + 1

Creator ==
    /\ UNCHANGED parvars
    /\ pc = "creator"
    /\ creator_calls' = creator_calls + 1
    /\ CreatorCall
    /\ \E r \in CopyResponses : CreatorReturns(r)
    /\ final_state' = [current_copy |-> current_copy',
                       retry_count |-> retry_count']
    /\ UNCHANGED << outcome, editor_calls, payload, only_rejections >>

\* creator_agent, llm.invoke raises: the exception leaves the graph
CreatorFailure ==
    /\ port' = "raised"
    /\ response' = response
    /\ pc' = "aborted"
    /\ UNCHANGED state

CreatorFails ==
    /\ UNCHANGED parvars
    /\ pc = "creator"
    /\ creator_calls' = creator_calls + 1
    /\ CreatorCall
    /\ CreatorFailure
    /\ UNCHANGED << outcome, editor_calls, final_state, payload,
                    only_rejections >>

\* variant: the editor hands back the response text as current_copy
EditorReturns_copy_from_response(r) ==
    LET parsed == ParseResponse(r) IN
    /\ response' = r
    /\ port' = "returned"
    /\ decision' = parsed.decision
    /\ editor_feedback' = parsed.feedback
    /\ feedback_history' = AppendFeedback(feedback_history, parsed.feedback)
    /\ current_copy' = Strip(r)
    /\ pc' = "router"
    /\ UNCHANGED << product_name, target_audience, retry_count, max_retries >>

\* editor_agent, the backend returns content r
EditorReturns(r) ==
    LET parsed == ParseResponse(r) IN
    /\ response' = r
    /\ port' = "returned"
    /\ decision' = parsed.decision
    /\ editor_feedback' = parsed.feedback
    /\ feedback_history' = AppendFeedback(feedback_history, parsed.feedback)
    /\ current_copy' = current_copy
    /\ pc' = "router"
    /\ UNCHANGED << product_name, target_audience, retry_count, max_retries >>

\* the prompt the editor sends, one backend call per invocation
EditorCall ==
    /\ prompt' = EditorPrompt(current_copy)
    /\ port_calls' = port_calls + 1

Editor ==
    /\ UNCHANGED parvars
    /\ pc = "editor"
    /\ editor_calls' = editor_calls + 1
    /\ EditorCall
    /\ \E r \in CriticResponses : EditorReturns(r)
    /\ final_state' = [decision |-> decision',
                       editor_feedback |-> editor_feedback',
                       feedback_history |-> feedback_history',
                       current_copy |-> current_copy']
    /\ only_rejections' = (/\ only_rejections
                           /\ decision' = REJECTED
                           /\ editor_feedback' # EmptyStr
                           /\ editor_feedback' # Good)
    /\ UNCHANGED << outcome, creator_calls, payload >>

\* variant: the defaults are merged before the backend call raises
EditorFailure_partial_merge ==
    /\ port' = "raised"
    /\ response' = response
    /\ pc' = "aborted"
    /\ decision' = DefaultDecision
    /\ editor_feedback' = ParseErrorFeedback
    /\ feedback_history' = Append(feedback_history, ParseErrorFeedback)
    /\ UNCHANGED << product_name, target_audience, current_copy,
                    retry_count, max_retries >>

\* editor_agent, llm.invoke raises before anything is parsed or appended
EditorFailure ==
    /\ port' = "raised"
    /\ response' = response
    /\ pc' = "aborted"
    /\ UNCHANGED state

EditorFails ==
    /\ UNCHANGED parvars
    /\ pc = "editor"
    /\ editor_calls' = editor_calls + 1
    /\ EditorCall
    /\ EditorFailure
    /\ UNCHANGED << outcome, creator_calls, final_state, payload,
                    only_rejections >>

\* the conditional edge: should_continue and the edge it selects
Router ==
    /\ UNCHANGED parvars
    /\ pc = "router"
    /\ outcome' = should_continue(decision, retry_count, max_retries)
    /\ pc' = EdgeTarget(outcome')
    /\ UNCHANGED << state, response, port, creator_calls, editor_calls,
                    prompt, port_calls, final_state, payload,
                    only_rejections >>

\* run_workflow after the stream has ended: print the result
Report ==
    /\ UNCHANGED parvars
    /\ pc = "done"
    /\ payload' = FinalPayload(final_state, product_name, target_audience)
    /\ pc' = "reported"
    /\ UNCHANGED << state, outcome, response, port, creator_calls,
                    editor_calls, prompt, port_calls, final_state,
                    only_rejections >>

Next == Creator \/ CreatorFails \/ Editor \/ EditorFails \/ Router \/ Report

Spec == Init /\ [][Next]_vars

\* the graph runs a node as soon as it is scheduled
FairSpec == Init /\ [][Next]_vars /\ WF_vars(Next)

\* ---------------------------------------------------------------- parallel runs
\* two invocations of run_workflow whose nodes interleave
RunIds == {"A", "B"}

\* what the generation backend may return in the parallel runs
ParCopyResponses == { <<"Copy1">>, <<" ", "Copy2", "\n">> }

ParCriticResponses ==
    { <<"DECISION:", " ", "APPROVED", "\n", "FEEDBACK:", " ", "Good">>,
      <<"DECISION:", " ", "REJECTED", "\n", "FEEDBACK:", " ", "F1">>,
      <<"DECISION:", " ", "REJECTED", "\n", "FEEDBACK:", " ", "F2">>,
      << >> }

\* variant: every invocation is handed one and the same list object
NewList_shared(i) == "A"

\* run_workflow: the list literal of the inputs is a new object per call
NewList(i) == i

\* run_workflow: the inputs of invocation i, feedback_history given as hist
Inputs(product, audience, n, hist) ==
    [ pc |-> "creator",
      product_name |-> product,
      target_audience |-> audience,
      retry_count |-> 0,
      current_copy |-> EmptyStr,
      editor_feedback |-> EmptyStr,
      feedback_history |-> hist,
      decision |-> EmptyStr,
      max_retries |-> n,
      outcome |-> "none" ]

\* the single invocation of Spec is not running
NoSingleRun ==
    /\ pc = "unused"
    /\ product_name = EmptyStr
    /\ target_audience = EmptyStr
    /\ retry_count = 0
    /\ current_copy = EmptyStr
    /\ editor_feedback = EmptyStr
    /\ feedback_history = << >>
    /\ decision = EmptyStr
    /\ max_retries = 0
    /\ outcome = "none"
    /\ response = EmptyStr
    /\ port = "idle"
    /\ creator_calls = 0
    /\ editor_calls = 0
    /\ prompt = EmptyStr
    /\ port_calls = 0
    /\ final_state = << >>
    /\ payload = NoPayload
    /\ only_rejections = TRUE

ParInit ==
    /\ NoSingleRun
    /\ \E n \in [RunIds -> 0..MaxRetries] :
         \E product \in Products, audience \in Audiences :
            /\ runs = [i \in RunIds |->
                         Inputs(product, audience, n[i], NewList(i))]
            /\ alone = [i \in RunIds |->
                         Inputs(product, audience, n[i], << >>)]
    /\ heap = [i \in RunIds |-> << >>]

\* creator_agent merged into a run state
CreatorDelta(st, r) ==
    [st EXCEPT !.current_copy = Strip(r),
               !.retry_count = @ + 1,
               !.pc = "editor"]

\* editor_agent merged into a run state, the history given as hist
EditorDelta(st, r, hist) ==
    [st EXCEPT !.decision = ParseResponse(r).decision,
               !.editor_feedback = ParseResponse(r).feedback,
               !.feedback_history = hist,
               !.pc = "router"]

\* should_continue and the edge it selects
RouterDelta(st) ==
    LET o == should_continue(st.decision, st.retry_count, st.max_retries)
    IN  [st EXCEPT !.outcome = o, !.pc = EdgeTarget(o)]

\* llm.invoke raises
FailureDelta(st) == [st EXCEPT !.pc = "aborted"]

ParCreator(i) ==
    /\ runs[i].pc = "creator"
    /\ \E r \in ParCopyResponses :
          /\ runs' = [runs EXCEPT ![i] = CreatorDelta(@, r)]
          /\ alone' = [alone EXCEPT ![i] = CreatorDelta(@, r)]
    /\ UNCHANGED heap

\* the editor appends in place to the list object its state refers to
ParEditor(i) ==
    /\ runs[i].pc = "editor"
    /\ \E r \in ParCriticResponses :
          LET ref == runs[i].feedback_history IN
          /\ heap' = [heap EXCEPT
                        ![ref] = AppendFeedback(@, ParseResponse(r).feedback)]
          /\ runs' = [runs EXCEPT ![i] = EditorDelta(@, r, ref)]
          /\ alone' = [alone EXCEPT ![i] =
                         EditorDelta(@, r,
                             AppendFeedback(alone[i].feedback_history,
                                            ParseResponse(r).feedback))]

ParRouter(i) ==
    /\ runs[i].pc = "router"
    /\ runs' = [runs EXCEPT ![i] = RouterDelta(@)]
    /\ alone' = [alone EXCEPT ![i] = RouterDelta(@)]
    /\ UNCHANGED heap

ParCreatorFails(i) ==
    /\ runs[i].pc = "creator"
    /\ runs' = [runs EXCEPT ![i] = FailureDelta(@)]
    /\ alone' = [alone EXCEPT ![i] = FailureDelta(@)]
    /\ UNCHANGED heap

ParEditorFails(i) ==
    /\ runs[i].pc = "editor"
    /\ runs' = [runs EXCEPT ![i] = FailureDelta(@)]
    /\ alone' = [alone EXCEPT ![i] = FailureDelta(@)]
    /\ UNCHANGED heap

singlevars == << pc, state, outcome, response, port, creator_calls,
                 editor_calls, prompt, port_calls, final_state, payload,
                 only_rejections >>

ParNext ==
    /\ UNCHANGED singlevars
    /\ \E i \in RunIds :
          \/ ParCreator(i)
          \/ ParCreatorFails(i)
          \/ ParEditor(i)
          \/ ParEditorFails(i)
          \/ ParRouter(i)

ParallelSpec == ParInit /\ [][ParNext]_vars

\* ---------------------------------------------------------------- claims
Max(a, b) == IF a >= b THEN a ELSE b

\* C1 (as stated): the creator is invoked at most max_retries times and
\* retry_count never exceeds max_retries.
C1_Original ==
    /\ creator_calls <= max_retries
    /\ retry_count <= max_retries

\* C1 (amended): the creator is invoked at most max(max_retries, 1) times and
\* retry_count never exceeds max(max_retries, 1); the first invocation is
\* unconditional, so the bound max_retries holds exactly when max_retries >= 1.
C1_CreatorBound ==
    /\ creator_calls <= Max(max_retries, 1)
    /\ retry_count <= Max(max_retries, 1)

\* the budget is used up by rejections and the router has ended the run
C1_Witness ==
    /\ pc = "done"
    /\ outcome = "max_retries"
    /\ max_retries >= 2
    /\ creator_calls = max_retries
    /\ retry_count = max_retries

\* C2: when every backend call returns the run reaches done; done is entered
\* only by a router outcome approved or max_retries, and the router leads
\* back to the creator exactly on the outcome rejected.
C2_Termination ==
    /\ <>(pc = "done" \/ pc = "aborted")
    /\ [][ /\ (pc # "done" /\ pc' = "done") =>
                (pc = "router" /\ outcome' \in {"approved", "max_retries"})
           /\ pc = "router" => (pc' = "creator" <=> outcome' = "rejected")
           /\ pc' = "creator" => pc = "router" ]_vars

\* a run that looped through rejected at least once and then ended
C2_Witness ==
    /\ pc = "done"
    /\ port = "returned"
    /\ creator_calls >= 2
    /\ outcome \in {"approved", "max_retries"}

\* C3: the router tests the approval first: once it has decided on a state
\* whose decision is APPROVED the outcome is approved, never max_retries,
\* also when retry_count = max_retries.
C3_ApprovalFirst ==
    [][ (pc = "router" /\ decision = APPROVED) =>
            (outcome' = "approved" /\ pc' = "done") ]_vars

\* approval on the last allowed attempt
C3_Witness ==
    /\ pc = "done"
    /\ decision = APPROVED
    /\ max_retries >= 1
    /\ retry_count = max_retries
    /\ outcome = "approved"

\* C4 (as stated): without approval the router answers max_retries exactly
\* when retry_count = max_retries; while retry_count < max_retries it
\* answers rejected and the creator runs again.
C4_Original ==
    [][ (pc = "router" /\ decision # APPROVED) =>
            /\ (outcome' = "max_retries") <=> (retry_count = max_retries)
            /\ retry_count < max_retries =>
                   (outcome' = "rejected" /\ pc' = "creator") ]_vars

\* C4 (amended): without approval the router answers max_retries exactly
\* when retry_count = max(max_retries, 1); while retry_count < max_retries
\* it answers rejected and the creator runs again.
C4_ExhaustionPoint ==
    [][ (pc = "router" /\ decision # APPROVED) =>
            /\ (outcome' = "max_retries") <=>
                   (retry_count = Max(max_retries, 1))
            /\ (outcome' = "max_retries") => pc' = "done"
            /\ retry_count < max_retries =>
                   (outcome' = "rejected" /\ pc' = "creator") ]_vars

\* the critic never approved and the run ended in the last allowed round,
\* after earlier rounds were sent back to the creator
C4_Witness ==
    /\ pc = "done"
    /\ outcome = "max_retries"
    /\ decision # APPROVED
    /\ max_retries >= 2
    /\ retry_count = max_retries
    /\ editor_calls = max_retries

\* the lines the parser scans
ParsedLines(raw) == Split(Strip(raw))

HasLine(raw, prefix) ==
    \E i \in 1..Len(ParsedLines(raw)) : StartsWith(ParsedLines(raw)[i], prefix)

\* a response that is not in the two-line format
Malformed(raw) == ~HasLine(raw, "DECISION:") \/ ~HasLine(raw, "FEEDBACK:")

\* the editor has returned and response is what the backend gave it
CriticResponded ==
    /\ port = "returned"
    /\ editor_calls > 0
    /\ pc \in {"router", "creator", "done", "reported"}

\* C5: a critic response without a DECISION: line or without a FEEDBACK:
\* line gives decision REJECTED and the router does not answer approved.
C5_MalformedNeverApproved ==
    (CriticResponded /\ Malformed(response)) =>
        /\ decision = REJECTED
        /\ pc # "router" => outcome # "approved"

\* C6: the decision held by the run state is always one of unset, APPROVED,
\* REJECTED, whatever text the critic parsed.
C6_DecisionEnum == decision \in {EmptyStr, APPROVED, REJECTED}

\* C7: feedback_history holds neither "Good" nor the empty string.
C7_HistoryClean ==
    \A i \in 1..Len(feedback_history) :
        feedback_history[i] # Good /\ feedback_history[i] # EmptyStr

\* the critic parsed "Good" or an empty feedback in a round that follows a
\* recorded rejection
C7_Witness ==
    /\ CriticResponded
    /\ editor_calls >= 2
    /\ editor_feedback \in {Good, EmptyStr}
    /\ Len(feedback_history) >= 1

\* C8: a backend call that raises ends the run: the step changes no field of
\* the run state, and no step follows it (no later stage, no second call).
C8_FailureAborts ==
    [][ /\ pc # "aborted"
        /\ port' = "raised" => (pc' = "aborted" /\ UNCHANGED state) ]_vars

\* the critic's backend call raised in a later round, after a rejection was
\* recorded
C8_Witness ==
    /\ pc = "aborted"
    /\ port = "raised"
    /\ editor_calls = 2
    /\ creator_calls = 2
    /\ retry_count = 2
    /\ Len(feedback_history) = 1

\* C9 (as stated): once the backend has returned empty content the run is
\* aborted.
C9_Original ==
    (port = "returned" /\ response = EmptyStr) => pc = "aborted"

\* C9 (amended): empty content is handled like any other content.  The
\* creator stores the empty copy, counts the attempt and hands over to the
\* critic; the critic takes the defaults (REJECTED, parse-error feedback),
\* records that feedback and hands over to the router, which never answers
\* approved for that round.
C9_EmptyContentContinues ==
    [][ /\ (pc = "creator" /\ port' = "returned" /\ response' = EmptyStr) =>
              /\ pc' = "editor"
              /\ current_copy' = EmptyStr
              /\ retry_count' = retry_count + 1
        /\ (pc = "editor" /\ port' = "returned" /\ response' = EmptyStr) =>
              /\ pc' = "router"
              /\ decision' = REJECTED
              /\ editor_feedback' = ParseErrorFeedback
              /\ feedback_history' =
                     Append(feedback_history, ParseErrorFeedback)
        /\ (pc = "router" /\ response = EmptyStr) =>
              outcome' \in {"rejected", "max_retries"} ]_vars

\* the critic got empty content and the run went on into another round
C9_Witness ==
    /\ pc = "creator"
    /\ port = "returned"
    /\ response = EmptyStr
    /\ editor_calls >= 1
    /\ outcome = "rejected"
    /\ editor_feedback = ParseErrorFeedback

\* number of creator invocations that have returned
CreatorInvocations ==
    IF pc = "aborted" /\ creator_calls > editor_calls
    THEN creator_calls - 1
    ELSE creator_calls

\* C10: retry_count starts at 0, counts the creator invocations, changes
\* only in a creator step and only by +1, and the critic of round k sees
\* retry_count = k.
C10_RetryCount ==
    /\ [](retry_count = CreatorInvocations)
    /\ [](pc = "editor" => retry_count = editor_calls + 1)
    /\ [][ /\ pc = "creator" /\ port' = "returned" =>
                retry_count' = retry_count + 1
           /\ ~(pc = "creator" /\ port' = "returned") =>
                retry_count' = retry_count ]_vars

\* the critic of the second round is about to run
C10_Witness ==
    /\ pc = "editor"
    /\ creator_calls = 2
    /\ editor_calls = 1
    /\ retry_count = 2

\* number of critic invocations that have returned
CriticRounds ==
    IF pc = "aborted" /\ creator_calls = editor_calls
    THEN editor_calls - 1
    ELSE editor_calls

\* C11: when every critic round rejects with a feedback that is neither
\* empty nor "Good", each round appends its feedback at the end of
\* feedback_history (one entry per round, in order), and a run of
\* max_retries such rounds ends with outcome max_retries,
\* retry_count = max_retries and max_retries entries.
C11_RejectedEveryRound ==
    /\ [](only_rejections =>
             /\ Len(feedback_history) = CriticRounds
             /\ CriticRounds > 0 =>
                    feedback_history[CriticRounds] = editor_feedback)
    /\ []((pc \in {"done", "reported"} /\ only_rejections
              /\ CriticRounds = max_retries) =>
             /\ outcome = "max_retries"
             /\ retry_count = max_retries
             /\ Len(feedback_history) = max_retries)
    /\ [][ (pc = "editor" /\ port' = "returned" /\ only_rejections') =>
               feedback_history' = Append(feedback_history, editor_feedback')
         ]_vars

\* two rounds rejected with F1 and then F2, budget of two
C11_Witness ==
    /\ pc = "done"
    /\ only_rejections
    /\ max_retries = 2
    /\ outcome = "max_retries"
    /\ retry_count = 2
    /\ feedback_history = << <<"F1">>, <<"F2">> >>

\* C12: a critic round whose decision is APPROVED appends nothing to
\* feedback_history, so a run approved in its first round ends with
\* retry_count = 1 and an empty feedback_history.
C12_RejectionsOnly ==
    /\ [][ (pc = "editor" /\ port' = "returned" /\ decision' = APPROVED) =>
               feedback_history' = feedback_history ]_vars
    /\ []((outcome = "approved" /\ creator_calls = 1) =>
               (retry_count = 1 /\ feedback_history = << >>))

\* a response in which no line starts with either prefix
NoPrefixLine(raw) == ~HasLine(raw, "DECISION:") /\ ~HasLine(raw, "FEEDBACK:")

\* C13: a critic response with neither a DECISION: nor a FEEDBACK: line gives
\* decision REJECTED and the parse-error feedback, which is appended to
\* feedback_history; the router then goes back to the creator, or ends with
\* max_retries when the budget is used up.
C13_NoPrefixLine ==
    [][ /\ (pc = "editor" /\ port' = "returned" /\ NoPrefixLine(response')) =>
              /\ decision' = REJECTED
              /\ editor_feedback' = ParseErrorFeedback
              /\ feedback_history' =
                     Append(feedback_history, ParseErrorFeedback)
              /\ pc' = "router"
        /\ (pc = "router" /\ NoPrefixLine(response)) =>
              \/ (retry_count < max_retries
                     /\ outcome' = "rejected" /\ pc' = "creator")
              \/ (retry_count >= max_retries
                     /\ outcome' = "max_retries" /\ pc' = "done") ]_vars

\* a response of prose only was rejected and sent back to the creator
C13_Witness ==
    /\ pc = "creator"
    /\ CriticResponded
    /\ response # EmptyStr
    /\ NoPrefixLine(response)
    /\ outcome = "rejected"
    /\ decision = REJECTED
    /\ feedback_history[Len(feedback_history)] = ParseErrorFeedback

\* C14: the success payload (brand_safety_check passed, content = the final
\* current_copy) is printed exactly for a run that ended approved, the
\* failure payload (brand_safety_check failed, with an error text) exactly
\* for a run that ended with max_retries, and nothing for an aborted run.
C14_PayloadMatchesOutcome ==
    /\ payload.brand_safety_check = "passed" <=>
           (pc = "reported" /\ outcome = "approved")
    /\ payload.brand_safety_check = "failed" <=>
           (pc = "reported" /\ outcome = "max_retries")
    /\ payload.brand_safety_check = "passed" =>
           payload.content = current_copy
    /\ payload.brand_safety_check = "failed" => "error" \in DOMAIN payload
    /\ pc # "reported" => payload = NoPayload

\* a copy approved in the second round has been reported
C14_Witness ==
    /\ pc = "reported"
    /\ outcome = "approved"
    /\ retry_count = 2
    /\ current_copy # EmptyStr
    /\ payload.brand_safety_check = "passed"

\* the index of the last scanned line that starts with the prefix, 0 if none
LastLineWith(raw, prefix) ==
    LET ls == ParsedLines(raw)
        I  == { i \in 1..Len(ls) : StartsWith(ls[i], prefix) }
    IN  IF I = {} THEN 0 ELSE CHOOSE i \in I : \A j \in I : j <= i

\* the text of a line after its prefix
AfterPrefix(line) == Tail(line)

\* C15: for each prefix the last line that starts with it gives the value
\* (decision trimmed and uppercased, feedback trimmed); without a DECISION:
\* line the decision is REJECTED, without a FEEDBACK: line the feedback is
\* the parse-error text, which is not "Good".
C15_LastLineWins ==
    /\ ParseErrorFeedback # Good
    /\ CriticResponded =>
          LET ls == ParsedLines(response)
              d  == LastLineWith(response, "DECISION:")
              f  == LastLineWith(response, "FEEDBACK:")
          IN  /\ decision = IF d = 0 THEN REJECTED
                            ELSE Upper(Strip(AfterPrefix(ls[d])))
              /\ editor_feedback = IF f = 0 THEN ParseErrorFeedback
                                   ELSE Strip(AfterPrefix(ls[f]))

\* a response with two DECISION: lines of different value
C15_Witness ==
    /\ CriticResponded
    /\ response = <<"DECISION:", " ", "APPROVED", "\n",
                    "DECISION:", " ", "REJECTED">>
    /\ decision = REJECTED
    /\ editor_feedback = ParseErrorFeedback

\* C16: feedback_history never has more entries than retry_count.
C16_HistoryLength == Len(feedback_history) <= retry_count

\* one entry per round after two rounds
C16_Witness ==
    /\ retry_count = 2
    /\ Len(feedback_history) = 2
    /\ CriticRounds = 2

\* C17: feedback_history only grows at its end, by one entry at a time and
\* only in a critic step; a feedback that is neither empty nor "Good" is
\* appended also when the history holds it already.
C17_AppendOnly ==
    [][ /\ Len(feedback_history') >= Len(feedback_history)
        /\ Len(feedback_history') <= Len(feedback_history) + 1
        /\ SubSeq(feedback_history', 1, Len(feedback_history)) =
               feedback_history
        /\ feedback_history' # feedback_history => pc = "editor"
        /\ (pc = "editor" /\ port' = "returned"
               /\ editor_feedback' # EmptyStr /\ editor_feedback' # Good) =>
               feedback_history' = Append(feedback_history, editor_feedback')
      ]_vars

\* the same feedback text was returned in two rounds
C17_Witness ==
    /\ Len(feedback_history) = 2
    /\ feedback_history[1] = feedback_history[2]

\* C18: a creator step changes only current_copy and retry_count, a critic
\* step only decision, editor_feedback and feedback_history, the router and
\* the final report change no field, and product_name, target_audience and
\* max_retries never change.
C18_Frame ==
    [][ /\ UNCHANGED << product_name, target_audience, max_retries >>
        /\ pc = "creator" =>
               UNCHANGED << editor_feedback, feedback_history, decision >>
        /\ pc = "editor" => UNCHANGED << retry_count, current_copy >>
        /\ pc \notin {"creator", "editor"} => UNCHANGED state ]_vars

\* a creator, a critic and a router step have all been taken and the
\* creator is about to run again on a non-empty copy and history
C18_Witness ==
    /\ pc = "creator"
    /\ CriticRounds = 1
    /\ outcome = "rejected"
    /\ retry_count = 1
    /\ current_copy # EmptyStr
    /\ feedback_history # << >>

\* the position of a token of a prompt, 0 if it does not occur
IndexOf(p, tok) ==
    IF \E i \in 1..Len(p) : p[i] = tok
    THEN CHOOSE i \in 1..Len(p) : p[i] = tok /\ \A j \in 1..(i - 1) : p[j] # tok
    ELSE 0

\* the feedback entries listed by a refinement prompt, one per line
ListedHistory(p) ==
    LET a == IndexOf(p, "Past Feedback History:")
        b == IndexOf(p, "Most Recent Feedback: ")
        section == SubSeq(p, a + 2, b - 3)
    IN  IF section = << >> THEN << >> ELSE Split(section)

\* the feedback a refinement prompt names as the most recent
ListedRecent(p) ==
    LET b == IndexOf(p, "Most Recent Feedback: ")
        c == IndexOf(p, "Please write a NEW caption that fixes these issues and respects ")
    IN  SubSeq(p, b + 1, c - 3)

IsRefinement(p) == p # << >> /\ p[1] = "Your previous draft for '"

RunView(i) == [runs[i] EXCEPT !.feedback_history = heap[@]]

\* C20: with two invocations interleaved in any order, a step changes the
\* run state of one invocation only (the contents of its feedback_history
\* included), and every invocation is at each point in the state it has
\* when it runs alone with the same backend responses.
C20_RunsIsolated ==
    /\ [](\A i \in RunIds : RunView(i) = alone[i])
    /\ [][ \E i \in RunIds :
              \A j \in RunIds \ {i} : RunView(j)' = RunView(j) ]_vars

\* both invocations have ended with different histories
C20_Witness ==
    /\ runs["A"].pc = "done"
    /\ runs["B"].pc = "done"
    /\ heap[runs["A"].feedback_history] = << <<"F1">>, <<"F2">> >>
    /\ heap[runs["B"].feedback_history] = << <<"F2">> >>
    /\ runs["A"].outcome = "max_retries"
    /\ runs["B"].outcome = "approved"

====
